---- MODULE Spec2Model ----
(***************************************************************************)
(* Model of the stock_api service:                                         *)
(*   app/routes/stock.py                  the /stock routes                *)
(*   app/routes/users.py, app/services/users_service.py  the user stores   *)
(*   app/services/stock_analysis_service.py  analyze_trend, recommend_action*)
(*   app/services/providers/alpha_vantage.py the Alpha Vantage adapter     *)
(*   app/services/sentiment.py            analyze_sentiment                *)
(*                                                                         *)
(* Numbers.  RSI readings, band values and closing prices are whole        *)
(* numbers.  MACD and signal values are kept in units of 0.0001, which is   *)
(* the precision round(x, 4) leaves them with.  A headline is represented  *)
(* by the VADER compound score of its text, in units of 0.0001.            *)
(*                                                                         *)
(* Python values.  None, floats and dicts are tagged records; a JSON       *)
(* object is a function from its keys to its values, so that a missing key *)
(* is a key outside DOMAIN.  A call either returns a value or raises:      *)
(* Return(v) and Raise(e).                                                 *)
(***************************************************************************)
EXTENDS Integers, Sequences, FiniteSets, TLC

VARIABLES
    pc,         \* per request: where the handler stands
    symbol,     \* per request: the stock_symbol path parameter
    rsi,        \* per request: analyze_trend's local rsi
    macd,       \* per request: analyze_trend's local macd
    bbands,     \* per request: analyze_trend's local bbands
    trend,      \* per request: recommend_action's local trend
    news,       \* per request: recommend_action's local news
    exc,        \* per request: the exception that left the handler, if any
    response,   \* per request: the HTTP answer of the route
    provider,   \* the one attribute of the shared service instance
    upstream,   \* per request: what the upstream holds for each of its fetches
    flight,     \* per request: the fetches issued and not yet completed
    user,       \* per request: the user argument of create_user / get_user
    users,      \* per request: UsersService's local users, once loaded
    fake_users_db,  \* routes/users.py: the in-memory store
    users_file, \* UsersService: the JSON file at filepath
    created     \* per username: the record of its first successful creation

\* what the stock routes leave alone
fetchVars == <<upstream, flight>>
userVars == <<user, users, fake_users_db, users_file, created>>

vars == <<pc, symbol, rsi, macd, bbands, trend, news, exc, response, provider,
          upstream, flight, user, users, fake_users_db, users_file, created>>

(***************************************************************************)
(* Bounds of the model.                                                    *)
(***************************************************************************)
\* request slots that may be in flight at once
NumReqs == 2
\* dates in an upstream series (RSI, BBANDS, daily time series)
MaxDates == 2
\* entries in an upstream news feed
MaxNews == 2
\* dates in an upstream SMA series
MaxSmaDates == 6

Reqs == 1..NumReqs
Dates == 1..MaxDates
Symbols == {"AAPL", "TSLA"}

(***************************************************************************)
(* Python values.                                                          *)
(***************************************************************************)
None == [tag |-> "None"]
Unset == [tag |-> "unset"]
Float(v) == [tag |-> "float", v |-> v]
Return(v) == [tag |-> "return", val |-> v]
Raise(e) == [tag |-> "raise", exc |-> e]
NoExc == [type |-> "none", at |-> "none"]
NoResponse == [status |-> 0]

\* A JSON string value as the upstream sends it: a numeral, some other text,
\* or null in place of the string.
Numeral(v) == [kind |-> "numeral", v |-> v]
Text == [kind |-> "text"]
Null == [kind |-> "null"]

\* float(x): the numeral's value; ValueError for other text; TypeError for null.
float(raw) ==
    CASE raw.kind = "numeral" -> Return(Float(raw.v))
      [] raw.kind = "text" -> Raise("ValueError")
      [] OTHER -> Raise("TypeError")

EmptyDict == [k \in {} |-> 0]

RECURSIVE SortedKeys(_)
\* the keys of a dict whose keys are dates, ascending
SortedKeys(S) ==
    IF S = {} THEN <<>>
    ELSE LET m == CHOOSE x \in S : \A y \in S : x <= y
         IN <<m>> \o SortedKeys(S \ {m})

Reverse(s) == [i \in 1..Len(s) |-> s[Len(s) + 1 - i]]

\* sorted(d.items()): the <<key, value>> pairs by ascending key
sorted(d) == LET ks == SortedKeys(DOMAIN d) IN [i \in 1..Len(ks) |-> <<ks[i], d[ks[i]]>>]

\* sorted(d.items(), reverse=True)
sorted_reverse(d) == Reverse(sorted(d))

(***************************************************************************)
(* The upstream exchange: requests.get either raises (no connection,       *)
(* timeout) or yields a response with a status and a body; the body is     *)
(* JSON or not.                                                            *)
(***************************************************************************)
NetworkError == [net |-> "error"]
NotJson == [json |-> FALSE]
Json(obj) == [json |-> TRUE, obj |-> obj]
Http(status, body) == [net |-> "ok", status |-> status, body |-> body]

\* every series over at most MaxDates dates with entries from E
SeriesOver(E) == UNION {[D -> E] : D \in SUBSET Dates}

\* the bodies that hold no data key: the provider's rate-limit and error notes
NoteBodies ==
    {Json([k \in {key} |-> "text"]) : key \in {"Note", "Error Message", "Information"}}

\* what a fetch can meet: no connection; status 200 with any of the bodies or
\* with a body that is not JSON; an error status with a note or a non-JSON body
Exchanges(bodies) ==
    {NetworkError}
        \cup {Http(200, b) : b \in bodies \cup {NotJson}}
        \cup {Http(503, b) : b \in NoteBodies \cup {NotJson}}

(***************************************************************************)
(* try: ... except (caught): return None                                   *)
(***************************************************************************)
Except(out, caught) ==
    IF out.tag = "raise" /\ out.exc \in caught THEN Return(None) ELSE out

\* float(d[k]): KeyError when the key is missing, else what float() does
FloatField(d, k) == IF k \notin DOMAIN d THEN Raise("KeyError") ELSE float(d[k])

\* requests.get(...).json(): raises when there is no connection or the body
\* is not JSON; the status is not looked at
get_json(x) ==
    IF x.net = "error" THEN Raise("ConnectionError")
    ELSE IF ~x.body.json THEN Raise("JSONDecodeError")
    ELSE Return(x.body.obj)

(***************************************************************************)
(* AlphaVantageAdapter.get_sma                                             *)
(***************************************************************************)
SMA_KEY == "Technical Analysis: SMA"
SMA_LATEST == 5
SmaDates == 1..MaxSmaDates
SmaEntries == {("SMA" :> raw) : raw \in {"150.0", "151.5"}}
SmaBodies ==
    NoteBodies \cup {Json(SMA_KEY :> s) : s \in UNION {[D -> SmaEntries] : D \in SUBSET SmaDates}}

\* s[:n]
Take(s, n) == SubSeq(s, 1, IF Len(s) < n THEN Len(s) ELSE n)

\* variant: the sort is ascending, so the slice keeps the oldest dates
get_sma_oldest(x) ==
    LET resp == get_json(x)
    IN IF resp.tag = "raise" THEN resp
       ELSE LET data == resp.val
            IN IF SMA_KEY \notin DOMAIN data
               THEN Return([status |-> "error", details |-> data])
               ELSE Return([status |-> "ok",
                            data |-> Take(sorted(data[SMA_KEY]), SMA_LATEST)])

\* the .json() call stands before the try; the try catches KeyError alone
get_sma(x) ==
    LET resp == get_json(x)
    IN IF resp.tag = "raise" THEN resp
       ELSE LET data == resp.val
            IN IF SMA_KEY \notin DOMAIN data
               THEN Return([status |-> "error", details |-> data])
               ELSE LET sma_data == data[SMA_KEY]
                        sorted_data == Take(sorted_reverse(sma_data), SMA_LATEST)
                    IN Return([status |-> "ok", data |-> sorted_data])

(***************************************************************************)
(* AlphaVantageAdapter.get_rsi                                             *)
(***************************************************************************)
RSI_KEY == "Technical Analysis: RSI"
RsiValues == {25, 30, 50, 70, 75}
RsiEntries == {("RSI" :> raw) : raw \in {Numeral(v) : v \in RsiValues} \cup {Text, Null}}
                  \cup {EmptyDict}
RsiBodies == NoteBodies \cup {Json(RSI_KEY :> s) : s \in SeriesOver(RsiEntries)}

\* the body of the try block
rsi_latest(resp) ==
    IF RSI_KEY \notin DOMAIN resp THEN Raise("KeyError")
    ELSE LET sorted_data == sorted_reverse(resp[RSI_KEY])
         IN IF Len(sorted_data) = 0 THEN Raise("IndexError")
            ELSE FloatField(sorted_data[1][2], "RSI")

get_rsi(x) ==
    LET resp == get_json(x)
    IN IF resp.tag = "raise" THEN resp
       ELSE Except(rsi_latest(resp.val), {"KeyError", "IndexError", "ValueError"})

(***************************************************************************)
(* AlphaVantageAdapter.get_bollinger_bands                                 *)
(***************************************************************************)
BB_KEY == "Technical Analysis: BBANDS"
UPPER == "Real Upper Band"
MIDDLE == "Real Middle Band"
LOWER == "Real Lower Band"
BandEntry(u, m, l) == (UPPER :> u) @@ (MIDDLE :> m) @@ (LOWER :> l)
BBEntries ==
    {BandEntry(Numeral(u), Numeral(m), Numeral(l)) :
        u \in {12}, m \in {8, 10, 12, 13}, l \in {8, 12}}
    \cup {(UPPER :> Numeral(12)) @@ (LOWER :> Numeral(8)),
          BandEntry(Text, Numeral(10), Numeral(8)),
          BandEntry(Numeral(12), Numeral(10), Null)}
BBBodies == NoteBodies \cup {Json(BB_KEY :> s) : s \in SeriesOver(BBEntries)}

BBDict(u, m, l, d) ==
    [tag |-> "dict", upper |-> u, middle |-> m, lower |-> l, date |-> d]

\* the body of the try block: the dict is built field by field, so the first
\* field that fails decides the exception
bb_latest(resp) ==
    IF BB_KEY \notin DOMAIN resp THEN Raise("KeyError")
    ELSE LET sorted_data == sorted_reverse(resp[BB_KEY])
         IN IF Len(sorted_data) = 0 THEN Raise("IndexError")
            ELSE LET latest == sorted_data[1][2]
                     u == FloatField(latest, UPPER)
                     m == FloatField(latest, MIDDLE)
                     l == FloatField(latest, LOWER)
                 IN IF u.tag = "raise" THEN u
                    ELSE IF m.tag = "raise" THEN m
                    ELSE IF l.tag = "raise" THEN l
                    ELSE Return(BBDict(u.val.v, m.val.v, l.val.v, sorted_data[1][1]))

get_bollinger_bands(x) ==
    LET resp == get_json(x)
    IN IF resp.tag = "raise" THEN resp
       ELSE Except(bb_latest(resp.val), {"KeyError", "IndexError", "ValueError"})

(***************************************************************************)
(* AlphaVantageAdapter.get_macd                                            *)
(*                                                                         *)
(* ewm(span, adjust=False).mean() is y[1] = x[1],                          *)
(* y[k] = ((span - 1) * y[k-1] + 2 * x[k]) / (span + 1).  The values are    *)
(* kept exact, as a numerator over a power of the denominator, and only    *)
(* round(x, 4) divides.                                                    *)
(***************************************************************************)
TS_KEY == "Time Series (Daily)"
CLOSE == "4. close"
CloseEntries == {(CLOSE :> raw) : raw \in {Numeral(100), Numeral(102), Text}}
                    \cup {EmptyDict}
MacdBodies == NoteBodies \cup {Json(TS_KEY :> s) : s \in SeriesOver(CloseEntries)}

EMA_FAST == 12
EMA_SLOW == 26
EMA_SIGNAL == 9
ROUND_SCALE == 10000

RECURSIVE Pow(_, _)
Pow(b, n) == IF n = 0 THEN 1 ELSE b * Pow(b, n - 1)

RECURSIVE ewm_mean(_, _, _)
\* ewm(span).mean() of the whole numbers x at index k, times (span+1)^(k-1)
ewm_mean(x, k, span) ==
    IF k = 1 THEN x[1]
    ELSE (span - 1) * ewm_mean(x, k - 1, span) + 2 * Pow(span + 1, k - 2) * x[k]

\* macd_line = ema12 - ema26 at index k, times MacdDen(k)
macd_line(x, k) ==
    ewm_mean(x, k, EMA_FAST) * Pow(EMA_SLOW + 1, k - 1)
        - ewm_mean(x, k, EMA_SLOW) * Pow(EMA_FAST + 1, k - 1)
MacdDen(k) == Pow((EMA_FAST + 1) * (EMA_SLOW + 1), k - 1)

RECURSIVE signal_line(_, _)
\* signal_line = macd_line.ewm(span=9).mean() at index k, times SignalDen(k)
signal_line(x, k) ==
    IF k = 1 THEN macd_line(x, 1)
    ELSE (EMA_SIGNAL - 1) * (EMA_FAST + 1) * (EMA_SLOW + 1) * signal_line(x, k - 1)
            + 2 * Pow(EMA_SIGNAL + 1, k - 2) * macd_line(x, k)
SignalDen(k) == Pow((EMA_FAST + 1) * (EMA_SLOW + 1) * (EMA_SIGNAL + 1), k - 1)

\* round(n / d, 4) in units of 0.0001, d > 0: the nearest unit, taken in two
\* steps of two digits
round4(n, d) ==
    LET q0 == n \div d
        r0 == n % d
        q1 == (r0 * 100) \div d
        r1 == (r0 * 100) % d
        q2 == (r1 * 100) \div d
        r2 == (r1 * 100) % d
    IN q0 * ROUND_SCALE + q1 * 100 + q2 + (IF 2 * r2 >= d THEN 1 ELSE 0)

MacdDict(m, s) == [tag |-> "dict", macd |-> m, signal |-> s]

\* closes = [float(v["4. close"]) for k, v in sorted(ts.items())]: the first
\* entry that fails, in ascending date order, decides the exception
closes_of(ts) ==
    LET items == sorted(ts)
        outs == [i \in 1..Len(items) |-> FloatField(items[i][2], CLOSE)]
        bad == {i \in 1..Len(items) : outs[i].tag = "raise"}
    IN IF bad # {} THEN outs[CHOOSE i \in bad : \A j \in bad : i <= j]
       ELSE Return([i \in 1..Len(items) |-> outs[i].val.v])

get_macd(x) ==
    IF x.net = "error" THEN Raise("ConnectionError")
    ELSE IF x.status >= 400 THEN Raise("HTTPError")
    ELSE IF ~x.body.json THEN Raise("JSONDecodeError")
    ELSE LET data == x.body.obj
         IN IF "Error Message" \in DOMAIN data \/ "Note" \in DOMAIN data
            THEN Return(None)
            ELSE IF TS_KEY \notin DOMAIN data THEN Raise("KeyError")
            ELSE LET closes == closes_of(data[TS_KEY])
                 IN IF closes.tag = "raise" THEN closes
                    ELSE IF Len(closes.val) = 0 THEN Raise("IndexError")
                    ELSE LET n == Len(closes.val)
                         IN Return(MacdDict(
                                round4(macd_line(closes.val, n), MacdDen(n)),
                                round4(signal_line(closes.val, n), SignalDen(n))))

(***************************************************************************)
(* analyze_sentiment: the compound score of the text against +-0.1         *)
(***************************************************************************)
SENTIMENT_THRESHOLD == 1000

\* variant: the two comparisons take the threshold itself
analyze_sentiment_ge(text) ==
    LET sentiment_score == text
    IN IF sentiment_score >= SENTIMENT_THRESHOLD THEN "positive"
       ELSE IF sentiment_score <= -SENTIMENT_THRESHOLD THEN "negative"
       ELSE "neutral"

analyze_sentiment(text) ==
    LET sentiment_score == text
    IN IF sentiment_score > SENTIMENT_THRESHOLD THEN "positive"
       ELSE IF sentiment_score < -SENTIMENT_THRESHOLD THEN "negative"
       ELSE "neutral"

(***************************************************************************)
(* AlphaVantageAdapter.get_news_sentiment                                  *)
(***************************************************************************)
Titles == {-5000, -1000, 1000, 5000}
FeedItems ==
    {[title |-> t, url |-> "url", time_published |-> "time"] : t \in Titles}
    \cup {[title |-> 5000, time_published |-> "time"]}
\* a feed of ten headlines, all of them positive
LongFeed == [i \in 1..10 |-> [title |-> 5000, url |-> "url", time_published |-> "time"]]
Feeds == UNION {[1..n -> FeedItems] : n \in 0..MaxNews} \cup {LongFeed}
NewsBodies == NoteBodies \cup {Json([feed |-> f]) : f \in Feeds}

ErrorDict(data) == [tag |-> "dict", error |-> "Failed to fetch news", details |-> data]
List(items) == [tag |-> "list", items |-> items]

\* one pass of the loop body: KeyError when the item lacks a key
news_item(item) ==
    IF {"title", "url", "time_published"} \subseteq DOMAIN item
    THEN Return([title |-> item.title, link |-> item.url,
                 published |-> item.time_published,
                 sentiment |-> analyze_sentiment(item.title)])
    ELSE Raise("KeyError")

get_news_sentiment(x) ==
    LET resp == get_json(x)
    IN IF resp.tag = "raise" THEN resp
       ELSE LET data == resp.val
            IN IF "feed" \notin DOMAIN data THEN Return(ErrorDict(data))
               ELSE LET outs == [i \in 1..Len(data.feed) |-> news_item(data.feed[i])]
                    IN IF \E i \in 1..Len(data.feed) : outs[i].tag = "raise"
                       THEN Raise("KeyError")
                       ELSE Return(List([i \in 1..Len(data.feed) |-> outs[i].val]))

(***************************************************************************)
(* StockAnalysisService.analyze_trend, after its three fetches             *)
(***************************************************************************)
RSI_OVERSOLD == 30
RSI_OVERBOUGHT == 70

\* variant: the MACD comparison takes equality as bullish
trend_score_macd_ge(r, m, b) ==
    LET s1 == IF r.v < RSI_OVERSOLD THEN 1 ELSE 0
        s2 == IF r.v > RSI_OVERBOUGHT THEN s1 - 1 ELSE s1
        s3 == IF m.macd >= m.signal THEN s2 + 1 ELSE s2 - 1
    IN IF b.middle > b.upper THEN s3 - 1
       ELSE IF b.middle < b.lower THEN s3 + 1
       ELSE s3

\* variant: the score starts at 1 instead of 0
trend_score_from_one(r, m, b) ==
    LET s1 == IF r.v < RSI_OVERSOLD THEN 2 ELSE 1
        s2 == IF r.v > RSI_OVERBOUGHT THEN s1 - 1 ELSE s1
        s3 == IF m.macd > m.signal THEN s2 + 1 ELSE s2 - 1
    IN IF b.middle > b.upper THEN s3 - 1
       ELSE IF b.middle < b.lower THEN s3 + 1
       ELSE s3

\* variant: a middle band that touches the upper or the lower band counts
trend_score_band_ge(r, m, b) ==
    LET s1 == IF r.v < RSI_OVERSOLD THEN 1 ELSE 0
        s2 == IF r.v > RSI_OVERBOUGHT THEN s1 - 1 ELSE s1
        s3 == IF m.macd > m.signal THEN s2 + 1 ELSE s2 - 1
    IN IF b.middle >= b.upper THEN s3 - 1
       ELSE IF b.middle <= b.lower THEN s3 + 1
       ELSE s3

trend_score(r, m, b) ==
    LET s0 == 0
        s1 == IF r.v < RSI_OVERSOLD THEN s0 + 1 ELSE s0
        s2 == IF r.v > RSI_OVERBOUGHT THEN s1 - 1 ELSE s1
        s3 == IF m.macd > m.signal THEN s2 + 1 ELSE s2 - 1
        s4 == IF b.middle > b.upper THEN s3 - 1
              ELSE IF b.middle < b.lower THEN s3 + 1
              ELSE s3
    IN s4

trend_result(score) ==
    IF score >= 2 THEN "strong uptrend"
    ELSE IF score = 1 THEN "uptrend"
    ELSE IF score = 0 THEN "sideways"
    ELSE IF score = -1 THEN "downtrend"
    ELSE "strong downtrend"

\* variant: best-effort scoring, an absent reading contributes nothing
analyze_trend_partial(r, m, b) ==
    IF r = None /\ m = None /\ b = None THEN "unknown"
    ELSE LET s1 == IF r # None /\ r.v < RSI_OVERSOLD THEN 1 ELSE 0
             s2 == IF r # None /\ r.v > RSI_OVERBOUGHT THEN s1 - 1 ELSE s1
             s3 == IF m = None THEN s2
                   ELSE IF m.macd > m.signal THEN s2 + 1 ELSE s2 - 1
             s4 == IF b = None THEN s3
                   ELSE IF b.middle > b.upper THEN s3 - 1
                   ELSE IF b.middle < b.lower THEN s3 + 1
                   ELSE s3
         IN trend_result(s4)

analyze_trend(r, m, b) ==
    IF r = None \/ m = None \/ b = None THEN "unknown"
    ELSE trend_result(trend_score(r, m, b))

(***************************************************************************)
(* StockAnalysisService.recommend_action, after analyze_trend and the news *)
(* fetch                                                                   *)
(***************************************************************************)
count(n, label) ==
    Cardinality({i \in 1..Len(n.items) : n.items[i].sentiment = label})

\* variant: a sentiment score of zero is enough to act on the trend
recommend_action_ge(t, n) ==
    IF n.tag = "dict" /\ "error" \in DOMAIN n THEN "HOLD"
    ELSE LET sentiment_score == count(n, "positive") - count(n, "negative")
         IN IF t \in {"strong uptrend", "uptrend"} /\ sentiment_score >= 0 THEN "BUY"
            ELSE IF t \in {"strong downtrend", "downtrend"} /\ sentiment_score <= 0
                 THEN "SELL"
            ELSE "HOLD"

\* variant: without a trend the sentiment alone decides
recommend_action_fallback(t, n) ==
    IF n.tag = "dict" /\ "error" \in DOMAIN n THEN "HOLD"
    ELSE LET sentiment_score == count(n, "positive") - count(n, "negative")
             up == IF t = "unknown" THEN {"unknown"} ELSE {"strong uptrend", "uptrend"}
             down == IF t = "unknown" THEN {"unknown"}
                     ELSE {"strong downtrend", "downtrend"}
         IN IF t \in up /\ sentiment_score > 0 THEN "BUY"
            ELSE IF t \in down /\ sentiment_score < 0 THEN "SELL"
            ELSE "HOLD"

\* variant: when the news fetch failed, the trend alone decides
recommend_action_trend_only(t, n) ==
    IF n.tag = "dict" /\ "error" \in DOMAIN n
    THEN IF t \in {"strong uptrend", "uptrend"} THEN "BUY"
         ELSE IF t \in {"strong downtrend", "downtrend"} THEN "SELL"
         ELSE "HOLD"
    ELSE LET sentiment_score == count(n, "positive") - count(n, "negative")
         IN IF t \in {"strong uptrend", "uptrend"} /\ sentiment_score > 0 THEN "BUY"
            ELSE IF t \in {"strong downtrend", "downtrend"} /\ sentiment_score < 0
                 THEN "SELL"
            ELSE "HOLD"

\* variant: every headline that is not positive counts as negative
recommend_action_rest_negative(t, n) ==
    IF n.tag = "dict" /\ "error" \in DOMAIN n THEN "HOLD"
    ELSE LET positive == count(n, "positive")
             negative == Len(n.items) - positive
             sentiment_score == positive - negative
         IN IF t \in {"strong uptrend", "uptrend"} /\ sentiment_score > 0 THEN "BUY"
            ELSE IF t \in {"strong downtrend", "downtrend"} /\ sentiment_score < 0
                 THEN "SELL"
            ELSE "HOLD"

RECURSIVE CountIn(_, _)
\* the items with the label in the news lists the requests of Q hold
CountIn(Q, label) ==
    IF Q = {} THEN 0
    ELSE LET q == CHOOSE x \in Q : TRUE
         IN count(news[q], label) + CountIn(Q \ {q}, label)

\* variant: the two counters live on the shared service instance and are
\* never reset, so the headlines of other requests are counted too
recommend_action_shared_tally(t, n) ==
    IF n.tag = "dict" /\ "error" \in DOMAIN n THEN "HOLD"
    ELSE LET seen == {q \in Reqs : news[q].tag = "list"}
             positive == count(n, "positive") + CountIn(seen, "positive")
             negative == count(n, "negative") + CountIn(seen, "negative")
             sentiment_score == positive - negative
         IN IF t \in {"strong uptrend", "uptrend"} /\ sentiment_score > 0 THEN "BUY"
            ELSE IF t \in {"strong downtrend", "downtrend"} /\ sentiment_score < 0
                 THEN "SELL"
            ELSE "HOLD"

recommend_action(t, n) ==
    IF n.tag = "dict" /\ "error" \in DOMAIN n THEN "HOLD"
    ELSE LET positive == count(n, "positive")
             negative == count(n, "negative")
             sentiment_score == positive - negative
         IN IF t \in {"strong uptrend", "uptrend"} /\ sentiment_score > 0 THEN "BUY"
            ELSE IF t \in {"strong downtrend", "downtrend"} /\ sentiment_score < 0
                 THEN "SELL"
            ELSE "HOLD"

(***************************************************************************)
(* The route GET /stock/recommend/{stock_symbol}.  One request is one run  *)
(* of get_recommendation -> recommend_action -> analyze_trend; it blocks   *)
(* in each of the four upstream fetches, and a step of the model is one    *)
(* fetch with the code that runs up to the next one.  An exception that    *)
(* no frame catches leaves the route, and the framework answers 500.       *)
(***************************************************************************)
\* no fetch issued, none completed
NoFlight == [issued |-> {}, last |-> "none"]
\* os.path.exists(self.filepath) is false
NoFile == [tag |-> "missing"]

Init ==
    /\ pc = [r \in Reqs |-> "idle"]
    /\ symbol = [r \in Reqs |-> "none"]
    /\ rsi = [r \in Reqs |-> Unset]
    /\ macd = [r \in Reqs |-> Unset]
    /\ bbands = [r \in Reqs |-> Unset]
    /\ trend = [r \in Reqs |-> "unset"]
    /\ news = [r \in Reqs |-> Unset]
    /\ exc = [r \in Reqs |-> NoExc]
    /\ response = [r \in Reqs |-> NoResponse]
    /\ provider = "AlphaVantageAdapter"
    /\ upstream = [r \in Reqs |-> EmptyDict]
    /\ flight = [r \in Reqs |-> NoFlight]
    /\ user = [r \in Reqs |-> Unset]
    /\ users = [r \in Reqs |-> Unset]
    /\ fake_users_db = EmptyDict
    /\ users_file = NoFile
    /\ created = [fake_users_db |-> EmptyDict, users_file |-> EmptyDict]

\* variant: the trend is kept in one attribute of the shared service
\* instance, which the request that stored first still occupies
instance_trend(r) ==
    LET S == {q \in Reqs : trend[q] # "unset"}
    IN trend[CHOOSE q \in S : \A p \in S : q <= p]

\* recommend_action's trend is a local of the request's own call
local_trend(r) == trend[r]

\* a request arrives on a free slot: a fresh frame, nothing carried over
Request(r) ==
    /\ pc[r] \in {"idle", "done"}
    /\ \E s \in Symbols : symbol' = [symbol EXCEPT ![r] = s]
    /\ pc' = [pc EXCEPT ![r] = "get_rsi"]
    /\ rsi' = [rsi EXCEPT ![r] = Unset]
    /\ macd' = [macd EXCEPT ![r] = Unset]
    /\ bbands' = [bbands EXCEPT ![r] = Unset]
    /\ trend' = [trend EXCEPT ![r] = "unset"]
    /\ news' = [news EXCEPT ![r] = Unset]
    /\ exc' = [exc EXCEPT ![r] = NoExc]
    /\ response' = [response EXCEPT ![r] = NoResponse]
    /\ UNCHANGED <<provider, fetchVars, userVars>>

\* the exception leaves analyze_trend, recommend_action and the route
Propagate(r, at, e) ==
    /\ pc' = [pc EXCEPT ![r] = "done"]
    /\ exc' = [exc EXCEPT ![r] = [type |-> e, at |-> at]]
    /\ response' = [response EXCEPT ![r] = [status |-> 500]]

\* variant: analyze_trend returns unknown as soon as the RSI is absent, before
\* it fetches the MACD and the bands
CallGetRsi_early(r, X) ==
    /\ pc[r] = "get_rsi"
    /\ \E x \in X :
         LET out == get_rsi(x)
         IN IF out.tag = "raise"
            THEN Propagate(r, "get_rsi", out.exc) /\ UNCHANGED <<rsi, trend>>
            ELSE /\ rsi' = [rsi EXCEPT ![r] = out.val]
                 /\ IF out.val = None
                    THEN /\ trend' = [trend EXCEPT ![r] = "unknown"]
                         /\ pc' = [pc EXCEPT ![r] = "get_news_sentiment"]
                    ELSE /\ pc' = [pc EXCEPT ![r] = "get_macd"]
                         /\ UNCHANGED trend
                 /\ UNCHANGED <<exc, response>>
    /\ UNCHANGED <<symbol, macd, bbands, news, provider, fetchVars, userVars>>

\* rsi = self.provider.get_rsi(symbol)
CallGetRsi(r, X) ==
    /\ pc[r] = "get_rsi"
    /\ \E x \in X :
         LET out == get_rsi(x)
         IN IF out.tag = "raise"
            THEN Propagate(r, "get_rsi", out.exc) /\ UNCHANGED rsi
            ELSE /\ rsi' = [rsi EXCEPT ![r] = out.val]
                 /\ pc' = [pc EXCEPT ![r] = "get_macd"]
                 /\ UNCHANGED <<exc, response>>
    /\ UNCHANGED <<symbol, macd, bbands, trend, news, provider, fetchVars, userVars>>

\* macd = self.provider.get_macd(symbol)
CallGetMacd(r, X) ==
    /\ pc[r] = "get_macd"
    /\ \E x \in X :
         LET out == get_macd(x)
         IN IF out.tag = "raise"
            THEN Propagate(r, "get_macd", out.exc) /\ UNCHANGED macd
            ELSE /\ macd' = [macd EXCEPT ![r] = out.val]
                 /\ pc' = [pc EXCEPT ![r] = "get_bollinger_bands"]
                 /\ UNCHANGED <<exc, response>>
    /\ UNCHANGED <<symbol, rsi, bbands, trend, news, provider, fetchVars, userVars>>

\* bbands = self.provider.get_bollinger_bands(symbol), the rest of
\* analyze_trend, and trend = self.analyze_trend(symbol)
CallGetBollingerBands(r, X) ==
    /\ pc[r] = "get_bollinger_bands"
    /\ \E x \in X :
         LET out == get_bollinger_bands(x)
         IN IF out.tag = "raise"
            THEN Propagate(r, "get_bollinger_bands", out.exc)
                 /\ UNCHANGED <<bbands, trend>>
            ELSE /\ bbands' = [bbands EXCEPT ![r] = out.val]
                 /\ trend' = [trend EXCEPT ![r] = analyze_trend(rsi[r], macd[r], out.val)]
                 /\ pc' = [pc EXCEPT ![r] = "get_news_sentiment"]
                 /\ UNCHANGED <<exc, response>>
    /\ UNCHANGED <<symbol, rsi, macd, news, provider, fetchVars, userVars>>

\* news = self.provider.get_news_sentiment(symbol), the rest of
\* recommend_action, and the route's return
CallGetNewsSentiment(r, X) ==
    /\ pc[r] = "get_news_sentiment"
    /\ \E x \in X :
         LET out == get_news_sentiment(x)
         IN IF out.tag = "raise"
            THEN Propagate(r, "get_news_sentiment", out.exc) /\ UNCHANGED news
            ELSE /\ news' = [news EXCEPT ![r] = out.val]
                 /\ pc' = [pc EXCEPT ![r] = "done"]
                 /\ response' = [response EXCEPT ![r] =
                        [status |-> 200, stock_symbol |-> symbol[r],
                         recommendation |-> recommend_action(local_trend(r), out.val)]]
                 /\ UNCHANGED exc
    /\ UNCHANGED <<symbol, rsi, macd, bbands, trend, provider, fetchVars, userVars>>

(***************************************************************************)
(* Spec: requests served one after another, over every upstream exchange.  *)
(***************************************************************************)
Next ==
    \/ Request(1)
    \/ CallGetRsi(1, Exchanges(RsiBodies))
    \/ CallGetMacd(1, Exchanges(MacdBodies))
    \/ CallGetBollingerBands(1, Exchanges(BBBodies))
    \/ CallGetNewsSentiment(1, Exchanges(NewsBodies))

Spec == Init /\ [][Next]_vars

(***************************************************************************)
(* SpecConc: NumReqs requests in flight at once on the shared service and  *)
(* provider, their fetches interleaved in every order.  Each fetch meets    *)
(* one of a few exchanges, enough for every recommendation to occur.       *)
(***************************************************************************)
RsiSeries(v) == Json(RSI_KEY :> (1 :> ("RSI" :> Numeral(v))))
Closes(a, b) == Json(TS_KEY :> ((1 :> (CLOSE :> Numeral(a))) @@ (2 :> (CLOSE :> Numeral(b)))))
Bands(u, m, l) == Json(BB_KEY :> (1 :> BandEntry(Numeral(u), Numeral(m), Numeral(l))))
Feed(t) == Json([feed |-> <<[title |-> t, url |-> "url", time_published |-> "time"]>>])
RateLimited == Json([k \in {"Note"} |-> "text"])

ConcRsi == {Http(200, RsiSeries(50)), Http(200, RateLimited)}
ConcMacd == {Http(200, Closes(100, 102)), Http(200, Closes(102, 100))}
ConcBands == {Http(200, Bands(12, 10, 8))}
ConcNews == {Http(200, Feed(5000)), Http(200, Feed(-5000)), Http(200, RateLimited),
             NetworkError}

NextConc ==
    \E r \in Reqs :
        \/ Request(r)
        \/ CallGetRsi(r, ConcRsi)
        \/ CallGetMacd(r, ConcMacd)
        \/ CallGetBollingerBands(r, ConcBands)
        \/ CallGetNewsSentiment(r, ConcNews)

SpecConc == Init /\ [][NextConc]_vars

(***************************************************************************)
(* SpecOrder: one client request against one state of the upstream, served *)
(* twice: in frame 1 by the code, which fetches RSI, MACD, bands and news   *)
(* in that order, and in frame 2 with the same four calls issued and       *)
(* completed in any order, the rest of analyze_trend and recommend_action   *)
(* running once all four have returned.  A call that raises ends the        *)
(* request, as in the code.                                                *)
(***************************************************************************)
Fetches == {"get_rsi", "get_macd", "get_bollinger_bands", "get_news_sentiment"}

\* self.provider.<f>(symbol) against the exchange x
fetch(f, x) ==
    CASE f = "get_rsi" -> get_rsi(x)
      [] f = "get_macd" -> get_macd(x)
      [] f = "get_bollinger_bands" -> get_bollinger_bands(x)
      [] f = "get_news_sentiment" -> get_news_sentiment(x)

\* the local that holds what f returned
Local(r, f) ==
    CASE f = "get_rsi" -> rsi[r]
      [] f = "get_macd" -> macd[r]
      [] f = "get_bollinger_bands" -> bbands[r]
      [] f = "get_news_sentiment" -> news[r]

OrderRsi == ConcRsi \cup {NetworkError}
OrderMacd == ConcMacd \cup {Http(503, RateLimited)}
OrderBands == ConcBands \cup {Http(200, NotJson)}
OrderNews == ConcNews
Worlds ==
    [get_rsi : OrderRsi, get_macd : OrderMacd, get_bollinger_bands : OrderBands,
     get_news_sentiment : OrderNews]

\* the request arrives; both frames start afresh on the same upstream
RequestPair ==
    /\ pc[1] \in {"idle", "done"} /\ pc[2] \in {"idle", "done"}
    /\ \E s \in Symbols, w \in Worlds :
         /\ symbol' = [symbol EXCEPT ![1] = s, ![2] = s]
         /\ upstream' = [upstream EXCEPT ![1] = w, ![2] = w]
    /\ pc' = [pc EXCEPT ![1] = "get_rsi", ![2] = "gather"]
    /\ rsi' = [rsi EXCEPT ![1] = Unset, ![2] = Unset]
    /\ macd' = [macd EXCEPT ![1] = Unset, ![2] = Unset]
    /\ bbands' = [bbands EXCEPT ![1] = Unset, ![2] = Unset]
    /\ trend' = [trend EXCEPT ![1] = "unset", ![2] = "unset"]
    /\ news' = [news EXCEPT ![1] = Unset, ![2] = Unset]
    /\ exc' = [exc EXCEPT ![1] = NoExc, ![2] = NoExc]
    /\ response' = [response EXCEPT ![1] = NoResponse, ![2] = NoResponse]
    /\ flight' = [flight EXCEPT ![1] = NoFlight, ![2] = NoFlight]
    /\ UNCHANGED <<provider, userVars>>

\* the call f goes out
Issue(r, f) ==
    /\ pc[r] = "gather"
    /\ f \notin flight[r].issued
    /\ flight' = [flight EXCEPT ![r].issued = @ \cup {f}]
    /\ UNCHANGED <<pc, symbol, rsi, macd, bbands, trend, news, exc, response, provider,
                   upstream, userVars>>

\* the call f comes back: it raises, or its value is kept; the last value to
\* come runs the rest of analyze_trend, recommend_action and the route
Complete(r, f) ==
    /\ pc[r] = "gather"
    /\ f \in flight[r].issued
    /\ Local(r, f) = Unset
    /\ flight' = [flight EXCEPT ![r].last = f]
    /\ LET out == fetch(f, upstream[r][f])
           got(g) == IF g = f THEN out.val ELSE Local(r, g)
       IN IF out.tag = "raise"
          THEN Propagate(r, f, out.exc) /\ UNCHANGED <<rsi, macd, bbands, trend, news>>
          ELSE /\ rsi' = [rsi EXCEPT ![r] = got("get_rsi")]
               /\ macd' = [macd EXCEPT ![r] = got("get_macd")]
               /\ bbands' = [bbands EXCEPT ![r] = got("get_bollinger_bands")]
               /\ news' = [news EXCEPT ![r] = got("get_news_sentiment")]
               /\ UNCHANGED exc
               /\ IF \A g \in Fetches : got(g) # Unset
                  THEN LET t == analyze_trend(got("get_rsi"), got("get_macd"),
                                              got("get_bollinger_bands"))
                       IN /\ trend' = [trend EXCEPT ![r] = t]
                          /\ pc' = [pc EXCEPT ![r] = "done"]
                          /\ response' = [response EXCEPT ![r] =
                                 [status |-> 200, stock_symbol |-> symbol[r],
                                  recommendation |->
                                      recommend_action(t, got("get_news_sentiment"))]]
                  ELSE UNCHANGED <<pc, trend, response>>
    /\ UNCHANGED <<symbol, provider, upstream, userVars>>

NextOrder ==
    \/ RequestPair
    \/ CallGetRsi(1, {upstream[1].get_rsi})
    \/ CallGetMacd(1, {upstream[1].get_macd})
    \/ CallGetBollingerBands(1, {upstream[1].get_bollinger_bands})
    \/ CallGetNewsSentiment(1, {upstream[1].get_news_sentiment})
    \/ \E f \in Fetches : Issue(2, f)
    \/ \E f \in Fetches : Complete(2, f)

SpecOrder == Init /\ [][NextOrder]_vars

(***************************************************************************)
(* SpecCalls: one call of the news route, of the SMA route, or of get_macd  *)
(* on the adapter itself (as tests/test_alpha_vantage.py calls it), against *)
(* any upstream exchange, which is kept for the record.  The calls keep no  *)
(* state, so one call from the initial state stands for each of them.       *)
(***************************************************************************)
Calls == {"get_news_sentiment", "get_sma", "get_macd"}
CallExchanges(f) ==
    CASE f = "get_news_sentiment" -> Exchanges(NewsBodies)
      [] f = "get_sma" -> Exchanges(SmaBodies)
      [] f = "get_macd" -> Exchanges(MacdBodies)

\* the call arrives with its symbol; x is what its fetch will meet
RequestCall(r, f) ==
    /\ pc[r] = "idle"
    /\ \E s \in Symbols, x \in CallExchanges(f) :
         /\ symbol' = [symbol EXCEPT ![r] = s]
         /\ upstream' = [upstream EXCEPT ![r] = (f :> x)]
    /\ pc' = [pc EXCEPT ![r] = f]
    /\ macd' = [macd EXCEPT ![r] = Unset]
    /\ news' = [news EXCEPT ![r] = Unset]
    /\ exc' = [exc EXCEPT ![r] = NoExc]
    /\ response' = [response EXCEPT ![r] = NoResponse]
    /\ UNCHANGED <<rsi, bbands, trend, provider, flight, userVars>>

\* routes/stock.py get_news: NewsService.get_news, then the answer
GetNews(r) ==
    /\ pc[r] = "get_news_sentiment"
    /\ LET out == get_news_sentiment(upstream[r].get_news_sentiment)
       IN IF out.tag = "raise"
          THEN Propagate(r, "get_news_sentiment", out.exc) /\ UNCHANGED news
          ELSE /\ news' = [news EXCEPT ![r] = out.val]
               /\ pc' = [pc EXCEPT ![r] = "done"]
               /\ response' = [response EXCEPT ![r] =
                      [status |-> 200, stock_symbol |-> symbol[r], news |-> out.val]]
               /\ UNCHANGED exc
    /\ UNCHANGED <<symbol, rsi, macd, bbands, trend, provider, fetchVars, userVars>>

\* routes/stock.py get_sma: StockAnalysisService.get_sma, then the answer
GetSma(r) ==
    /\ pc[r] = "get_sma"
    /\ LET out == get_sma(upstream[r].get_sma)
       IN IF out.tag = "raise"
          THEN Propagate(r, "get_sma", out.exc)
          ELSE /\ pc' = [pc EXCEPT ![r] = "done"]
               /\ response' = [response EXCEPT ![r] =
                      [status |-> 200, stock_symbol |-> symbol[r], sma |-> out.val]]
               /\ UNCHANGED exc
    /\ UNCHANGED <<symbol, rsi, macd, bbands, trend, news, provider, fetchVars, userVars>>

\* result = adapter.get_macd(symbol): the result, or the exception that
\* reaches the caller
GetMacd(r) ==
    /\ pc[r] = "get_macd"
    /\ LET out == get_macd(upstream[r].get_macd)
       IN IF out.tag = "raise"
          THEN /\ exc' = [exc EXCEPT ![r] = [type |-> out.exc, at |-> "get_macd"]]
               /\ UNCHANGED macd
          ELSE /\ macd' = [macd EXCEPT ![r] = out.val]
               /\ UNCHANGED exc
    /\ pc' = [pc EXCEPT ![r] = "done"]
    /\ UNCHANGED <<symbol, rsi, bbands, trend, news, response, provider, fetchVars,
                   userVars>>

NextCalls ==
    \/ \E f \in Calls : RequestCall(1, f)
    \/ GetNews(1)
    \/ GetSma(1)
    \/ GetMacd(1)

SpecCalls == Init /\ [][NextCalls]_vars

(***************************************************************************)
(* The user stores.  routes/users.py keeps User objects in the module-level *)
(* dict fake_users_db; UsersService keeps user.dict() records in a JSON     *)
(* file, read whole by _load and written whole by _save.  A step is one     *)
(* access to the store with the code around it: between the membership      *)
(* test and the assignment of the route, and between _load and _save of the *)
(* service, another request may run.  Reading and writing the file may      *)
(* fail; _load and _save catch the error, print it and go on.               *)
(***************************************************************************)
Usernames == {"alice", "bob"}
Emails == {"a@example.com", "b@example.com"}
UserOps == {"create_user", "get_user", "UsersService.create_user", "UsersService.get_user"}
CreateOps == {"create_user", "UsersService.create_user"}

\* the record each store keeps: the User object, or user.dict()
RouteUser(u) == [username |-> u.name, email |-> u.email]
ServiceUser(u) == [name |-> u.name, email |-> u.email]

\* d[k] = v
Assign(d, k, v) == [x \in DOMAIN d \cup {k} |-> IF x = k THEN v ELSE d[x]]

JsonFile(content) == [tag |-> "json", content |-> content]
CorruptFile == [tag |-> "corrupt"]
LoadOutcomes == {"read", "IOError"}
SaveOutcomes == {"written", "open fails", "write fails"}

\* UsersService._load: {} when the file is missing, cannot be read or does
\* not hold JSON
UsersService_load(file, outcome) ==
    IF file.tag = "missing" THEN EmptyDict
    ELSE IF outcome = "IOError" THEN EmptyDict
    ELSE IF file.tag = "corrupt" THEN EmptyDict
    ELSE file.content

\* UsersService._save: the file after it; open(..., "w") empties the file
\* before json.dump writes it
UsersService_save(file, d, outcome) ==
    CASE outcome = "written" -> JsonFile(d)
      [] outcome = "open fails" -> file
      [] outcome = "write fails" -> CorruptFile

Ok(body) == [status |-> 200, body |-> body]
StoreName(op) == IF op \in {"create_user", "get_user"} THEN "fake_users_db" ELSE "users_file"

\* the first creation of each username that returned "User created"
Remember(op, name, record) ==
    LET st == StoreName(op)
    IN IF name \in DOMAIN created[st] THEN created
       ELSE [created EXCEPT ![st] = Assign(@, name, record)]

\* a request arrives on a slot that is in one of the states of free
RequestUser(r, ops, free) ==
    /\ pc[r] \in free
    /\ \E op \in ops, n \in Usernames, e \in Emails :
         /\ op \in CreateOps \/ e = "a@example.com"
         /\ user' = [user EXCEPT ![r] = [op |-> op, name |-> n, email |-> e]]
         /\ pc' = [pc EXCEPT ![r] = op]
    /\ users' = [users EXCEPT ![r] = Unset]
    /\ exc' = [exc EXCEPT ![r] = NoExc]
    /\ response' = [response EXCEPT ![r] = NoResponse]
    /\ UNCHANGED <<symbol, rsi, macd, bbands, trend, news, provider, fetchVars,
                   fake_users_db, users_file, created>>

\* routes/users.py create_user: if user.username in fake_users_db
RouteCreateCheck(r) ==
    /\ pc[r] = "create_user"
    /\ IF user[r].name \in DOMAIN fake_users_db
       THEN /\ response' = [response EXCEPT ![r] = Ok([error |-> "User already exists"])]
            /\ pc' = [pc EXCEPT ![r] = "done"]
       ELSE /\ pc' = [pc EXCEPT ![r] = "create_user: store"]
            /\ UNCHANGED response
    /\ UNCHANGED <<symbol, rsi, macd, bbands, trend, news, exc, provider, fetchVars,
                   userVars>>

\* routes/users.py create_user: fake_users_db[user.username] = user; return
RouteCreateStore(r) ==
    /\ pc[r] = "create_user: store"
    /\ fake_users_db' = Assign(fake_users_db, user[r].name, RouteUser(user[r]))
    /\ response' = [response EXCEPT ![r] =
           Ok([message |-> "User created", user |-> RouteUser(user[r])])]
    /\ created' = Remember("create_user", user[r].name, RouteUser(user[r]))
    /\ pc' = [pc EXCEPT ![r] = "done"]
    /\ UNCHANGED <<symbol, rsi, macd, bbands, trend, news, exc, provider, fetchVars,
                   user, users, users_file>>

\* routes/users.py get_user
RouteGetUser(r) ==
    /\ pc[r] = "get_user"
    /\ response' = [response EXCEPT ![r] =
           IF user[r].name \in DOMAIN fake_users_db
           THEN Ok(fake_users_db[user[r].name])
           ELSE Ok([error |-> "User not found"])]
    /\ pc' = [pc EXCEPT ![r] = "done"]
    /\ UNCHANGED <<symbol, rsi, macd, bbands, trend, news, exc, provider, fetchVars,
                   userVars>>

\* UsersService.create_user: users = self._load(); the membership test;
\* users[user.name] = user.dict()
ServiceCreateLoad(r, outcomes) ==
    /\ pc[r] = "UsersService.create_user"
    /\ \E o \in outcomes :
         LET loaded == UsersService_load(users_file, o)
         IN IF user[r].name \in DOMAIN loaded
            THEN /\ response' = [response EXCEPT ![r] =
                        Ok([error |-> "User already exists"])]
                 /\ users' = [users EXCEPT ![r] = loaded]
                 /\ pc' = [pc EXCEPT ![r] = "done"]
            ELSE /\ users' = [users EXCEPT ![r] =
                        Assign(loaded, user[r].name, ServiceUser(user[r]))]
                 /\ pc' = [pc EXCEPT ![r] = "UsersService.create_user: save"]
                 /\ UNCHANGED response
    /\ UNCHANGED <<symbol, rsi, macd, bbands, trend, news, exc, provider, fetchVars,
                   user, fake_users_db, users_file, created>>

\* UsersService.create_user: self._save(users); return
ServiceCreateSave(r, outcomes) ==
    /\ pc[r] = "UsersService.create_user: save"
    /\ \E o \in outcomes : users_file' = UsersService_save(users_file, users[r], o)
    /\ response' = [response EXCEPT ![r] =
           Ok([message |-> "User created", user |-> ServiceUser(user[r])])]
    /\ created' = Remember("UsersService.create_user", user[r].name, ServiceUser(user[r]))
    /\ pc' = [pc EXCEPT ![r] = "done"]
    /\ UNCHANGED <<symbol, rsi, macd, bbands, trend, news, exc, provider, fetchVars,
                   user, users, fake_users_db>>

\* UsersService.get_user
ServiceGetUser(r, outcomes) ==
    /\ pc[r] = "UsersService.get_user"
    /\ \E o \in outcomes :
         LET loaded == UsersService_load(users_file, o)
         IN /\ users' = [users EXCEPT ![r] = loaded]
            /\ response' = [response EXCEPT ![r] =
                   IF user[r].name \in DOMAIN loaded
                   THEN Ok(loaded[user[r].name])
                   ELSE Ok([error |-> "User not found"])]
    /\ pc' = [pc EXCEPT ![r] = "done"]
    /\ UNCHANGED <<symbol, rsi, macd, bbands, trend, news, exc, provider, fetchVars,
                   user, fake_users_db, users_file, created>>

(***************************************************************************)
(* SpecUsers: user operations one after another, on either store.          *)
(***************************************************************************)
NextUsers ==
    \/ RequestUser(1, UserOps, {"idle", "done"})
    \/ RouteCreateCheck(1)
    \/ RouteCreateStore(1)
    \/ RouteGetUser(1)
    \/ ServiceCreateLoad(1, LoadOutcomes)
    \/ ServiceCreateSave(1, SaveOutcomes)
    \/ ServiceGetUser(1, LoadOutcomes)

SpecUsers == Init /\ [][NextUsers]_vars

(***************************************************************************)
(* SpecUsersConc: NumReqs create_user requests, one per slot, running at    *)
(* once on either store, their steps interleaved in every order.  Every    *)
(* read and write of the file succeeds.                                    *)
(***************************************************************************)
NextUsersConc ==
    \E r \in Reqs :
        \/ RequestUser(r, CreateOps, {"idle"})
        \/ RouteCreateCheck(r)
        \/ RouteCreateStore(r)
        \/ ServiceCreateLoad(r, {"read"})
        \/ ServiceCreateSave(r, {"written"})

SpecUsersConc == Init /\ [][NextUsersConc]_vars

(***************************************************************************)
(* What the claims speak of.                                               *)
(***************************************************************************)
Labels == {"BUY", "SELL", "HOLD"}
UpTrends == {"strong uptrend", "uptrend"}
DownTrends == {"strong downtrend", "downtrend"}

\* the request was answered with a recommendation
Answered(r) == pc[r] = "done" /\ response[r].status = 200
\* the news fetch gave a list, not the error indicator
NewsIsList(r) == news[r].tag = "list"
NewsIsError(r) == news[r].tag = "dict"
\* analyze_trend has returned
TrendKnown(r) == trend[r] # "unset"
AllPresent(r) == rsi[r].tag = "float" /\ macd[r].tag = "dict" /\ bbands[r].tag = "dict"
SomeAbsent(r) == rsi[r] = None \/ macd[r] = None \/ bbands[r] = None

RECURSIVE Tally(_, _)
\* how many of the items carry the sentiment
Tally(items, label) ==
    IF items = <<>> THEN 0
    ELSE (IF Head(items).sentiment = label THEN 1 ELSE 0) + Tally(Tail(items), label)

NetOf(r) == Tally(news[r].items, "positive") - Tally(news[r].items, "negative")

\* C1: with a trend label and a news list that is not an error, the answer
\* is BUY exactly when the trend is an uptrend and net > 0, SELL exactly when
\* the trend is a downtrend and net < 0, and HOLD in every other case; BUY
\* and SELL are never given for sideways or unknown, nor for net = 0.
C1_DecisionRule ==
    \A r \in Reqs :
        Answered(r) /\ NewsIsList(r) =>
            LET rec == response[r].recommendation
            IN /\ rec \in Labels
               /\ rec = "BUY" <=> (trend[r] \in UpTrends /\ NetOf(r) > 0)
               /\ rec = "SELL" <=> (trend[r] \in DownTrends /\ NetOf(r) < 0)
               /\ rec = "HOLD" <=> (/\ ~(trend[r] \in UpTrends /\ NetOf(r) > 0)
                                    /\ ~(trend[r] \in DownTrends /\ NetOf(r) < 0))
               /\ rec # "HOLD" =>
                      (trend[r] \notin {"sideways", "unknown"} /\ NetOf(r) # 0)

C1_Witness ==
    \E r \in Reqs :
        /\ Answered(r) /\ NewsIsList(r)
        /\ trend[r] = "strong downtrend" /\ NetOf(r) < 0
        /\ Len(news[r].items) = 2
        /\ response[r].recommendation = "SELL"

\* C2: whatever the four upstream fetches meet, recommend_action ends by
\* returning BUY, SELL or HOLD and the route answers successfully with it.
C2_NeverFails ==
    \A r \in Reqs :
        pc[r] = "done" =>
            /\ exc[r] = NoExc
            /\ response[r].status = 200
            /\ response[r].recommendation \in Labels

\* C3: a failed fetch in get_rsi, get_macd or get_bollinger_bands becomes
\* None at the adapter and is never raised into analyze_trend.
C3_FailuresAbsorbed ==
    \A r \in Reqs :
        exc[r].at \notin {"get_rsi", "get_macd", "get_bollinger_bands"}

\* C4: analyze_trend returns unknown whenever one of its three readings is
\* absent, whatever the readings that are present.
C4_AbsentGivesUnknown ==
    \A r \in Reqs : TrendKnown(r) /\ SomeAbsent(r) => trend[r] = "unknown"

C4_Witness ==
    \E r \in Reqs :
        /\ trend[r] = "unknown"
        /\ rsi[r] = Float(25)
        /\ macd[r].tag = "dict" /\ macd[r].macd > macd[r].signal
        /\ bbands[r] = None

\* the three contributions as the claim words them
RsiPart(v) == IF v < 30 THEN 1 ELSE IF v > 70 THEN -1 ELSE 0
MacdPart(m, sig) == IF m > sig THEN 1 ELSE -1
BandPart(mid, up, low) == IF mid > up THEN -1 ELSE IF mid < low THEN 1 ELSE 0
ScoreOf(r) ==
    RsiPart(rsi[r].v) + MacdPart(macd[r].macd, macd[r].signal)
        + BandPart(bbands[r].middle, bbands[r].upper, bbands[r].lower)
LabelOf(score) ==
    CASE score >= 2 -> "strong uptrend"
      [] score = 1 -> "uptrend"
      [] score = 0 -> "sideways"
      [] score = -1 -> "downtrend"
      [] OTHER -> "strong downtrend"

\* C5: with all readings present, analyze_trend returns the label of
\* r + m + b (r from the RSI against 30 and 70, m from MACD against its
\* signal with equality counted as -1, b from the middle band against the
\* upper and lower band); the two worked examples give strong downtrend and
\* uptrend.
C5_TrendIsLabelOfScore ==
    /\ \A r \in Reqs : TrendKnown(r) /\ AllPresent(r) => trend[r] = LabelOf(ScoreOf(r))
    /\ analyze_trend(Float(75), MacdDict(4000, 5000), BBDict(12, 13, 8, 1))
           = "strong downtrend"
    /\ analyze_trend(Float(50), MacdDict(10000, 5000), BBDict(12, 10, 8, 1)) = "uptrend"

C5_Witness ==
    \E r \in Reqs :
        /\ TrendKnown(r)
        /\ rsi[r] = Float(75)
        /\ macd[r].tag = "dict" /\ macd[r].macd = macd[r].signal
        /\ bbands[r].tag = "dict" /\ bbands[r].middle = 13 /\ bbands[r].upper = 12
        /\ bbands[r].lower = 8
        /\ trend[r] = "strong downtrend"

\* C6: when the news fetch returns its error indicator, the answer is HOLD
\* for every trend.
C6_NewsErrorGivesHold ==
    \A r \in Reqs :
        Answered(r) /\ NewsIsError(r) => response[r].recommendation = "HOLD"

C6_Witness ==
    \E r \in Reqs :
        /\ Answered(r) /\ NewsIsError(r)
        /\ trend[r] = "strong uptrend"
        /\ response[r].recommendation = "HOLD"

\* C7: end to end, when one of the three indicator fetches has yielded None,
\* the request is answered HOLD for every result of the news fetch, a list
\* of ten positive headlines and no negative one included.
C7_AbsentGivesHold ==
    \A r \in Reqs :
        pc[r] = "done" /\ news[r] # Unset /\ SomeAbsent(r) =>
            response[r].status = 200 /\ response[r].recommendation = "HOLD"

C7_Witness ==
    \E r \in Reqs :
        /\ Answered(r) /\ NewsIsList(r)
        /\ rsi[r] = Float(25) /\ macd[r] = None /\ bbands[r].tag = "dict"
        /\ Tally(news[r].items, "positive") = 10
        /\ Tally(news[r].items, "negative") = 0
        /\ response[r].recommendation = "HOLD"

\* C8: the trend_score of a snapshot with all readings present lies in -3..2.
C8_ScoreRange ==
    \A r \in Reqs :
        TrendKnown(r) /\ AllPresent(r) =>
            trend_score(rsi[r], macd[r], bbands[r]) \in -3..2

\* C8 as amended: the trend_score lies in -3..3.
C8_ScoreRangeAmended ==
    \A r \in Reqs :
        TrendKnown(r) /\ AllPresent(r) =>
            trend_score(rsi[r], macd[r], bbands[r]) \in -3..3

C8_Witness ==
    \E r \in Reqs :
        /\ TrendKnown(r) /\ AllPresent(r)
        /\ rsi[r].v < 30 /\ macd[r].macd > macd[r].signal
        /\ bbands[r].middle < bbands[r].lower
        /\ trend_score(rsi[r], macd[r], bbands[r]) = 3

\* what a request fetched
SameReadings(a, b) == rsi[a] = rsi[b] /\ macd[a] = macd[b] /\ bbands[a] = bbands[b]
SameNews(a, b) == news[a] = news[b]

OwnTrend(r) == IF SomeAbsent(r) THEN "unknown" ELSE LabelOf(ScoreOf(r))
OwnRecommendation(r) ==
    IF NewsIsError(r) THEN "HOLD"
    ELSE IF OwnTrend(r) \in UpTrends /\ NetOf(r) > 0 THEN "BUY"
    ELSE IF OwnTrend(r) \in DownTrends /\ NetOf(r) < 0 THEN "SELL"
    ELSE "HOLD"

\* the variables of request r
Frame(r) ==
    <<pc[r], symbol[r], rsi[r], macd[r], bbands[r], trend[r], news[r], exc[r],
      response[r]>>

\* C10: with requests running concurrently on the shared service and
\* provider, in every interleaving: a step of one request leaves the
\* variables of every other request and the shared instance as they were,
\* and a request that is answered gets the recommendation that its own
\* readings and news determine.
C10_Isolated ==
    [][\A r \in Reqs :
          pc'[r] # pc[r] =>
              /\ \A q \in Reqs \ {r} : Frame(q)' = Frame(q)
              /\ provider' = provider
              /\ Answered(r)' => response'[r].recommendation = OwnRecommendation(r)']_vars

C10_Witness ==
    \E a, b \in Reqs :
        /\ a # b
        /\ Answered(a) /\ trend[a] = "uptrend" /\ response[a].recommendation = "BUY"
        /\ pc[b] = "get_news_sentiment" /\ trend[b] = "downtrend"

\* C11: the recommendation does not depend on the order in which the four
\* fetches are issued and completed: served with its fetches in any order, a
\* request ends as it ends in the code's order RSI, MACD, bands, news, for
\* every combination of what the four fetches meet - answered with the same
\* recommendation, or not answered.
C11_OrderIrrelevant ==
    pc[1] = "done" /\ pc[2] = "done" /\ upstream[1] = upstream[2] =>
        /\ response[1].status = response[2].status
        /\ response[1].status = 200 =>
               response[1].recommendation = response[2].recommendation

C11_Witness ==
    /\ Answered(1) /\ Answered(2) /\ upstream[1] = upstream[2]
    /\ flight[2].last = "get_rsi"
    /\ response[1].recommendation = "BUY" /\ response[2].recommendation = "BUY"

\* a headline that does not score: neutral, or any other label
Unscored(label) == [title |-> 0, link |-> "url", published |-> "time", sentiment |-> label]
IsScored(item) == item.sentiment \in {"positive", "negative"}
\* items with x put in after the first p of them
Inserted(items, x, p) == SubSeq(items, 1, p) \o <<x>> \o SubSeq(items, p + 1, Len(items))
\* items without the one at p
Removed(items, p) == SubSeq(items, 1, p - 1) \o SubSeq(items, p + 1, Len(items))
\* the lists that differ from items in headlines that do not score: one of
\* them taken out, all of them taken out, one or two more put in anywhere
NeutralVariants(items) ==
    {Removed(items, p) : p \in {q \in 1..Len(items) : ~IsScored(items[q])}}
        \cup {SelectSeq(items, IsScored)}
        \cup {Inserted(items, Unscored(l), p) : l \in {"neutral", "mixed"}, p \in 0..Len(items)}
        \cup {Inserted(Inserted(items, Unscored(l), p), Unscored(k), p) :
                  l, k \in {"neutral", "mixed"}, p \in {0, Len(items)}}

\* C12: only positive and negative headlines enter the score: adding or
\* removing headlines that are neutral (or carry any other value) changes
\* neither net = positive - negative nor the recommendation.
C12_NeutralIgnored ==
    \A r \in Reqs :
        Answered(r) /\ NewsIsList(r) =>
            \A v \in NeutralVariants(news[r].items) :
                /\ count(List(v), "positive") - count(List(v), "negative")
                       = count(news[r], "positive") - count(news[r], "negative")
                /\ recommend_action(trend[r], List(v)) = response[r].recommendation

C12_Witness ==
    \E r \in Reqs :
        /\ Answered(r) /\ NewsIsList(r) /\ Len(news[r].items) = 2
        /\ news[r].items[1].sentiment = "neutral"
        /\ news[r].items[2].sentiment = "positive"
        /\ trend[r] \in UpTrends
        /\ response[r].recommendation = "BUY"

\* the call f of request r has ended
CallDone(r, f) == pc[r] = "done" /\ DOMAIN upstream[r] = {f}
\* the upstream answered, and with a JSON object
JsonBody(x) == x.net = "ok" /\ x.body.json
Holds(x, key) == JsonBody(x) /\ key \in DOMAIN x.body.obj

\* C13: GET /stock/news/{symbol} answers with {stock_symbol, news}:
\* stock_symbol is the requested symbol and news a list of one item per feed
\* entry, in feed order, each with a sentiment of positive, neutral or
\* negative; when the upstream response has no feed, the answer carries the
\* error payload {error, details} instead.
C13_NewsRoute ==
    \A r \in Reqs :
        CallDone(r, "get_news_sentiment") =>
            LET x == upstream[r].get_news_sentiment
            IN /\ response[r].status = 200
               /\ response[r].stock_symbol = symbol[r]
               /\ IF Holds(x, "feed")
                  THEN LET feed == x.body.obj.feed
                           items == response[r].news.items
                       IN /\ response[r].news.tag = "list"
                          /\ Len(items) = Len(feed)
                          /\ \A i \in 1..Len(feed) :
                                /\ items[i].title = feed[i].title
                                /\ items[i].sentiment \in {"positive", "neutral", "negative"}
                  ELSE /\ response[r].news.tag = "dict"
                       /\ {"error", "details"} \subseteq DOMAIN response[r].news

\* the dates of a series, most recent first
RECURSIVE Descending(_)
Descending(S) ==
    IF S = {} THEN <<>>
    ELSE LET m == CHOOSE x \in S : \A y \in S : y <= x
         IN <<m>> \o Descending(S \ {m})

\* C14: get_sma and GET /stock/sma/{symbol} return status ok with the entries
\* of the 5 most recent dates of the SMA series (all of them when there are
\* fewer), most recent first, whenever the response holds the series, and
\* status error with the raw response as details whenever the key is missing.
C14_SmaLatestFive ==
    \A r \in Reqs :
        CallDone(r, "get_sma") /\ JsonBody(upstream[r].get_sma) =>
            LET x == upstream[r].get_sma
                sma == response[r].sma
            IN /\ response[r].status = 200
               /\ response[r].stock_symbol = symbol[r]
               /\ IF Holds(x, SMA_KEY)
                  THEN LET series == x.body.obj[SMA_KEY]
                           recent == Descending(DOMAIN series)
                           n == IF Len(recent) < 5 THEN Len(recent) ELSE 5
                       IN /\ sma.status = "ok"
                          /\ Len(sma.data) = n
                          /\ \A i \in 1..n : sma.data[i] = <<recent[i], series[recent[i]]>>
                  ELSE /\ sma.status = "error"
                       /\ sma.details = x.body.obj

C14_Witness ==
    \E r \in Reqs :
        /\ CallDone(r, "get_sma") /\ Holds(upstream[r].get_sma, SMA_KEY)
        /\ DOMAIN upstream[r].get_sma.body.obj[SMA_KEY] = 1..6
        /\ response[r].status = 200
        /\ Len(response[r].sma.data) = 5
        /\ response[r].sma.data[1][1] = 6 /\ response[r].sma.data[5][1] = 2

\* a daily time series is well formed: it has a date, and every date a close
\* that is a numeral
WellFormedSeries(ts) ==
    /\ DOMAIN ts # {}
    /\ \A d \in DOMAIN ts : CLOSE \in DOMAIN ts[d] /\ ts[d][CLOSE].kind = "numeral"
\* the closes by ascending date
AscendingCloses(ts) ==
    LET ds == SortedKeys(DOMAIN ts) IN [i \in 1..Len(ds) |-> ts[ds[i]][CLOSE].v]

\* C15: for every upstream response that holds a well-formed daily time
\* series and neither "Error Message" nor "Note", get_macd returns a dict with
\* the "macd" and the "signal" value of the closes in ascending date order;
\* it returns None when the response holds "Error Message" or "Note".
C15_MacdOrNone ==
    \A r \in Reqs :
        CallDone(r, "get_macd") /\ JsonBody(upstream[r].get_macd) =>
            LET x == upstream[r].get_macd
            IN IF Holds(x, "Error Message") \/ Holds(x, "Note")
               THEN exc[r] = NoExc /\ macd[r] = None
               ELSE Holds(x, TS_KEY) /\ WellFormedSeries(x.body.obj[TS_KEY]) =>
                        LET closes == AscendingCloses(x.body.obj[TS_KEY])
                            n == Len(closes)
                        IN /\ exc[r] = NoExc
                           /\ macd[r].tag = "dict"
                           /\ macd[r].macd = round4(macd_line(closes, n), MacdDen(n))
                           /\ macd[r].signal
                                  = round4(signal_line(closes, n), SignalDen(n))

\* C16: analyze_sentiment gives every headline exactly one of positive,
\* neutral, negative: positive exactly when the compound score is above 0.1,
\* negative exactly when it is below -0.1, neutral otherwise; the scores 0.1
\* and -0.1 themselves are neutral.  (Scores are in units of 0.0001.)
C16_SentimentThresholds ==
    /\ \A r \in Reqs :
          NewsIsList(r) =>
              \A i \in 1..Len(news[r].items) :
                  LET item == news[r].items[i]
                  IN /\ item.sentiment \in {"positive", "neutral", "negative"}
                     /\ item.sentiment = "positive" <=> item.title > 1000
                     /\ item.sentiment = "negative" <=> item.title < -1000
                     /\ item.sentiment = "neutral" <=>
                            (item.title >= -1000 /\ item.title <= 1000)
    /\ analyze_sentiment(1000) = "neutral"
    /\ analyze_sentiment(-1000) = "neutral"

C16_Witness ==
    \E r \in Reqs :
        /\ NewsIsList(r) /\ Len(news[r].items) = 2
        /\ news[r].items[1].title = 1000 /\ news[r].items[1].sentiment = "neutral"
        /\ news[r].items[2].title = -1000 /\ news[r].items[2].sentiment = "neutral"

\* the bands are well formed
WellFormedBands(b) == b.lower <= b.middle /\ b.middle <= b.upper

\* C18: with all readings present and well-formed bands (lower <= middle <=
\* upper) the bands contribute 0, the score lies in -2..2 and the label
\* depends on RSI and MACD only: strong uptrend iff rsi < 30 and macd >
\* signal; strong downtrend iff rsi > 70 and macd <= signal; sideways iff
\* (rsi < 30 and macd <= signal) or (rsi > 70 and macd > signal); for
\* 30 <= rsi <= 70, uptrend if macd > signal and downtrend otherwise.
C18_WellFormedBands ==
    \A r \in Reqs :
        TrendKnown(r) /\ AllPresent(r) /\ WellFormedBands(bbands[r]) =>
            LET v == rsi[r].v
                up == macd[r].macd > macd[r].signal
                score == trend_score(rsi[r], macd[r], bbands[r])
            IN /\ score = RsiPart(v) + MacdPart(macd[r].macd, macd[r].signal)
               /\ score \in -2..2
               /\ trend[r] = "strong uptrend" <=> (v < 30 /\ up)
               /\ trend[r] = "strong downtrend" <=> (v > 70 /\ ~up)
               /\ trend[r] = "sideways" <=> ((v < 30 /\ ~up) \/ (v > 70 /\ up))
               /\ (v >= 30 /\ v <= 70) =>
                      trend[r] = (IF up THEN "uptrend" ELSE "downtrend")

C18_Witness ==
    \E r \in Reqs :
        /\ TrendKnown(r) /\ AllPresent(r)
        /\ bbands[r].lower = 8 /\ bbands[r].middle = 12 /\ bbands[r].upper = 12
        /\ rsi[r].v = 75 /\ macd[r].macd > macd[r].signal
        /\ trend[r] = "sideways"

\* the records a store holds
StoreContent(st) ==
    IF st = "fake_users_db" THEN fake_users_db
    ELSE IF users_file.tag = "json" THEN users_file.content
    ELSE EmptyDict
\* the record the request's store keeps for its user
RecordOf(r) ==
    IF StoreName(user[r].op) = "fake_users_db" THEN RouteUser(user[r])
    ELSE ServiceUser(user[r])
\* the user operation of request r returns in this step
Returns(r) == pc[r] \notin {"idle", "done"} /\ pc'[r] = "done" /\ user[r] # Unset

\* C17: over any sequence of create_user and get_user operations: creating
\* a username that is stored returns "User already exists" and changes no
\* stored record; creating a new username stores it and returns "User
\* created"; get_user returns the record of the first successful creation
\* of the username, or "User not found" when it was never created.
C17_UserStore ==
    [][\A r \in Reqs :
          Returns(r) =>
              LET st == StoreName(user[r].op)
                  name == user[r].name
                  before == StoreContent(st)
                  after == StoreContent(st)'
                  body == response'[r].body
              IN IF user[r].op \in CreateOps
                 THEN IF name \in DOMAIN before
                      THEN body = [error |-> "User already exists"] /\ after = before
                      ELSE /\ body = [message |-> "User created", user |-> RecordOf(r)]
                           /\ after = Assign(before, name, RecordOf(r))
                 ELSE IF name \in DOMAIN created[st]
                      THEN body = created[st][name]
                      ELSE body = [error |-> "User not found"]]_vars

\* request r has returned "User created"
Created(r) ==
    /\ pc[r] = "done" /\ user[r] # Unset
    /\ "message" \in DOMAIN response[r].body

\* C19: with create_user requests running concurrently, in every
\* interleaving of their check and store steps: at most one request for a
\* username returns "User created", and once all requests have finished
\* the user of every request that returned "User created" is in the store.
C19_NoLostCreation ==
    /\ \A a, b \in Reqs :
          a # b /\ Created(a) /\ Created(b) /\ user[a].op = user[b].op =>
              user[a].name # user[b].name
    /\ (\A r \in Reqs : pc[r] \in {"idle", "done"}) =>
          \A r \in Reqs :
              Created(r) => user[r].name \in DOMAIN StoreContent(StoreName(user[r].op))

====
